---- MODULE Spec2Model ----
(***************************************************************************)
(* Model of the Rekhta / ToyLang tree-walking interpreter                  *)
(* (src/unnamed/part_001, class Interpreter) and of its tokenizer          *)
(* (src/unnamed/part_000).                                                 *)
(*                                                                         *)
(* The interpreter is a recursive evaluator.  Every visitXxx method is an  *)
(* operator of the same name that takes the AST node and the interpreter   *)
(* state and yields a completion: the state afterwards together with       *)
(* either a value ("normal") or a thrown host exception ("throw").  The    *)
(* actions of the state machine apply one handler each, through visit, to  *)
(* a persistent Interpreter instance.                                      *)
(***************************************************************************)
EXTENDS Integers, Sequences, FiniteSets, TLC

(***************************************************************************)
(* Bounds of the model.                                                    *)
(***************************************************************************)
\* number of handler invocations on one Interpreter instance
MaxExecs == 2
\* loop iterations after which an execution counts as running forever
MaxIter == 3
\* nested user-function invocations the host stack holds
MaxDepth == 3
\* largest numeric literal of the enumerated programs
MaxNum == 2

(***************************************************************************)
(* Runtime values.  The host (JavaScript) values the interpreter handles:  *)
(* number, string, boolean, null, undefined and CallableFunction objects.  *)
(* A number is the fraction n/d with d > 0; d = 0 encodes NaN (n = 0),     *)
(* Infinity (n = 1) and -Infinity (n = -1); negative zero is n = 0,        *)
(* d = -1.  A string is a sequence of characters.                          *)
(***************************************************************************)
Abs(i) == IF i < 0 THEN -i ELSE i

RECURSIVE Gcd(_, _)
Gcd(a, b) == IF b = 0 THEN a ELSE Gcd(b, a % b)

Num(i) == [t |-> "number", n |-> i, d |-> 1]
NaN == [t |-> "number", n |-> 0, d |-> 0]
Inf(s) == [t |-> "number", n |-> s, d |-> 0]
Zero(s) == [t |-> "number", n |-> 0, d |-> s]
Str(chars) == [t |-> "string", s |-> chars]
Bool(b) == [t |-> "boolean", b |-> b]
Null == [t |-> "null"]
Undefined == [t |-> "undefined"]

\* the fraction n/d, d # 0, in lowest terms
Frac(n, d) ==
  IF n = 0 THEN Zero(IF d < 0 THEN -1 ELSE 1)
  ELSE LET g == Gcd(Abs(n), Abs(d))
           s == IF d < 0 THEN -1 ELSE 1
       IN [t |-> "number", n |-> (s * n) \div g, d |-> Abs(d) \div g]

IsNaN(x) == x.n = 0 /\ x.d = 0
IsInf(x) == x.n # 0 /\ x.d = 0
IsZero(x) == x.n = 0 /\ x.d # 0
Sgn(x) == IF x.n < 0 \/ (x.n = 0 /\ x.d < 0) THEN -1 ELSE 1

\* IEEE-754 arithmetic of the host on these numbers
NumNeg(x) ==
  IF IsNaN(x) THEN NaN
  ELSE IF IsZero(x) THEN Zero(-x.d)
  ELSE [t |-> "number", n |-> -x.n, d |-> x.d]

NumAdd(x, y) ==
  IF IsNaN(x) \/ IsNaN(y) THEN NaN
  ELSE IF IsInf(x) /\ IsInf(y) THEN (IF x.n = y.n THEN x ELSE NaN)
  ELSE IF IsInf(x) THEN x
  ELSE IF IsInf(y) THEN y
  ELSE IF IsZero(x) /\ IsZero(y)
       THEN Zero(IF x.d < 0 /\ y.d < 0 THEN -1 ELSE 1)
  ELSE Frac(x.n * Abs(y.d) + y.n * Abs(x.d), Abs(x.d) * Abs(y.d))

NumSub(x, y) == NumAdd(x, NumNeg(y))

NumMul(x, y) ==
  IF IsNaN(x) \/ IsNaN(y) THEN NaN
  ELSE IF (IsInf(x) /\ IsZero(y)) \/ (IsZero(x) /\ IsInf(y)) THEN NaN
  ELSE IF IsInf(x) \/ IsInf(y) THEN Inf(Sgn(x) * Sgn(y))
  ELSE IF IsZero(x) \/ IsZero(y) THEN Zero(Sgn(x) * Sgn(y))
  ELSE Frac(x.n * y.n, x.d * y.d)

NumDiv(x, y) ==
  IF IsNaN(x) \/ IsNaN(y) THEN NaN
  ELSE IF (IsInf(x) /\ IsInf(y)) \/ (IsZero(x) /\ IsZero(y)) THEN NaN
  ELSE IF IsInf(x) \/ IsZero(y) THEN Inf(Sgn(x) * Sgn(y))
  ELSE IF IsZero(x) \/ IsInf(y) THEN Zero(Sgn(x) * Sgn(y))
  ELSE Frac(x.n * y.d, x.d * y.n)

NumLt(x, y) ==
  IF IsNaN(x) \/ IsNaN(y) THEN FALSE
  ELSE IF IsInf(x) /\ IsInf(y) THEN x.n < y.n
  ELSE x.n * Abs(y.d) < y.n * Abs(x.d)

NumEq(x, y) ==
  IF IsNaN(x) \/ IsNaN(y) THEN FALSE
  ELSE (IsZero(x) /\ IsZero(y)) \/ (x.n = y.n /\ x.d = y.d)

IsCallable(v) == v.t \in {"function", "native"}

\* typeof v
TypeOf(v) ==
  CASE v.t \in {"number", "string", "boolean", "undefined"} -> v.t
    [] OTHER -> "object"

\* truthiness as a Lox-style isTruthy would have it
ToBoolean_OnlyFalseAndNull(v) ==
  ~(v.t \in {"null", "undefined"} \/ (v.t = "boolean" /\ ~v.b))

\* ToBoolean(v): what `if (v)`, `while (v)`, `!v`, `v && w` test
ToBoolean(v) ==
  CASE v.t = "boolean" -> v.b
    [] v.t = "number" -> ~(IsNaN(v) \/ IsZero(v))
    [] v.t = "string" -> v.s # <<>>
    [] v.t \in {"null", "undefined"} -> FALSE
    [] OTHER -> TRUE

Digits == <<"0", "1", "2", "3", "4", "5", "6", "7", "8", "9">>

DigitVal(c) == CHOOSE i \in 0..9 : Digits[i + 1] = c

IsDigit(c) == \E i \in 1..10 : Digits[i] = c

RECURSIVE DecimalValue(_)
DecimalValue(s) ==
  IF s = <<>> THEN 0
  ELSE 10 * DecimalValue(SubSeq(s, 1, Len(s) - 1)) + DigitVal(s[Len(s)])

\* ToNumber of a string: the empty string is 0, a run of digits its decimal
\* value, any other text NaN
StringToNumber(s) ==
  IF \A i \in 1..Len(s) : IsDigit(s[i]) THEN Num(DecimalValue(s)) ELSE NaN

\* ToPrimitive of a CallableFunction object: its default toString
ObjectString == Str(<<"[object Object]">>)

\* the operator == of the host (abstract equality, with coercion)
RECURSIVE LooseEquals(_, _)
LooseEquals(x, y) ==
  IF x.t = y.t
  THEN (IF x.t = "number" THEN NumEq(x, y) ELSE x = y)
  ELSE IF x.t \in {"null", "undefined"} /\ y.t \in {"null", "undefined"}
  THEN TRUE
  ELSE IF x.t \in {"null", "undefined"} \/ y.t \in {"null", "undefined"}
  THEN FALSE
  ELSE IF x.t = "number" /\ y.t = "string"
  THEN NumEq(x, StringToNumber(y.s))
  ELSE IF x.t = "string" /\ y.t = "number"
  THEN NumEq(StringToNumber(x.s), y)
  ELSE IF x.t = "boolean" THEN LooseEquals(Num(IF x.b THEN 1 ELSE 0), y)
  ELSE IF y.t = "boolean" THEN LooseEquals(x, Num(IF y.b THEN 1 ELSE 0))
  ELSE IF IsCallable(x) /\ IsCallable(y) THEN FALSE
  ELSE IF IsCallable(x) THEN LooseEquals(ObjectString, y)
  ELSE IF IsCallable(y) THEN LooseEquals(x, ObjectString)
  ELSE FALSE

(***************************************************************************)
(* Host strings of the other values (ToString), used by the host's + on    *)
(* mixed operands.                                                         *)
(***************************************************************************)
RECURSIVE NatToString(_)
NatToString(i) ==
  IF i < 10 THEN <<Digits[i + 1]>>
  ELSE NatToString(i \div 10) \o <<Digits[(i % 10) + 1]>>

\* the decimal digits of the fraction r/d, 0 <= r < d, at most k of them
RECURSIVE FracDigits(_, _, _)
FracDigits(r, d, k) ==
  IF r = 0 \/ k = 0 THEN <<>>
  ELSE <<Digits[((10 * r) \div d) + 1]>> \o FracDigits((10 * r) % d, d, k - 1)

\* significant decimal digits the host prints for a number
HostDigits == 16

NumberToString(x) ==
  IF IsNaN(x) THEN <<"N", "a", "N">>
  ELSE IF IsInf(x)
  THEN (IF x.n < 0 THEN <<"-">> ELSE <<>>)
       \o <<"I", "n", "f", "i", "n", "i", "t", "y">>
  ELSE IF IsZero(x) THEN <<"0">>
  ELSE (IF x.n < 0 THEN <<"-">> ELSE <<>>)
       \o NatToString(Abs(x.n) \div x.d)
       \o (IF Abs(x.n) % x.d = 0 THEN <<>>
           ELSE <<".">> \o FracDigits(Abs(x.n) % x.d, x.d, HostDigits))

ToStringValue(v) ==
  CASE v.t = "string" -> v.s
    [] v.t = "number" -> NumberToString(v)
    [] v.t = "boolean" ->
         IF v.b THEN <<"t", "r", "u", "e">> ELSE <<"f", "a", "l", "s", "e">>
    [] v.t = "null" -> <<"n", "u", "l", "l">>
    [] v.t = "undefined" ->
         <<"u", "n", "d", "e", "f", "i", "n", "e", "d">>
    [] OTHER -> ObjectString.s

ToNumber(v) ==
  CASE v.t = "number" -> v
    [] v.t = "string" -> StringToNumber(v.s)
    [] v.t = "boolean" -> Num(IF v.b THEN 1 ELSE 0)
    [] v.t = "null" -> Num(0)
    [] OTHER -> NaN

\* the host's l + r on any two values
HostAdd(l, r) ==
  IF l.t = "string" \/ r.t = "string" \/ IsCallable(l) \/ IsCallable(r)
  THEN Str(ToStringValue(l) \o ToStringValue(r))
  ELSE NumAdd(ToNumber(l), ToNumber(r))

\* the host's l - r, l * r, l / r and l < r where an operand is a number
HostSub(l, r) == NumSub(ToNumber(l), ToNumber(r))
HostMul(l, r) == NumMul(ToNumber(l), ToNumber(r))
HostDiv(l, r) == NumDiv(ToNumber(l), ToNumber(r))
HostLt(l, r) == NumLt(ToNumber(l), ToNumber(r))
HostLe(l, r) ==
  NumLt(ToNumber(l), ToNumber(r)) \/ NumEq(ToNumber(l), ToNumber(r))

(***************************************************************************)
(* AST nodes (the typings of namespace tl): records with a type field.  A  *)
(* child that                                                              *)
(* the parser leaves out (else branch, for clause, return argument,        *)
(* declarator initializer) is the host's null, here Absent.                *)
(***************************************************************************)
Absent == [absent |-> TRUE]
IsAbsent(node) == "absent" \in DOMAIN node

(***************************************************************************)
(* Interpreter state threaded through an execution:                        *)
(*   envs         the Environment objects allocated so far, by identity    *)
(*   environment  this.environment                                         *)
(*   nfun         the ToyLangFunction objects created so far               *)
(*   log          trace of the execution (visits, calls, returns, blocks)  *)
(*   depth, iters nesting of user-function calls, loop iterations so far   *)
(* A completion is the state afterwards with kind "normal" and a value,    *)
(* kind "throw" and the thrown exception, or kind "running" when the       *)
(* execution has not ended within MaxIter loop iterations.                 *)
(***************************************************************************)
Normal(st, v) == [st |-> st, kind |-> "normal", val |-> v]
Throw(st, e) == [st |-> st, kind |-> "throw", val |-> e]
Running(st) == [st |-> st, kind |-> "running", val |-> Undefined]

\* a normal completion continues with value v, any other one propagates
WithValue(r, v) == IF r.kind = "normal" THEN Normal(r.st, v) ELSE r

Logged(st, e) == [st EXCEPT !.log = Append(@, e)]

\* new RuntimeError(message, node)
RuntimeError(message, node) ==
  [class |-> "RuntimeError", message |-> message, node |-> node]

\* the host's own exceptions (TypeError, RangeError, Error, SyntaxError)
HostError(class, message) == [class |-> class, message |-> message]

\* new Return(value)
Return(value) == [class |-> "Return", value |-> value]

(***************************************************************************)
(* Environment (src/interpreter/Environment, not part of the sources at    *)
(* hand): a chained mapping from names to values.                          *)
(***************************************************************************)
EmptyRecord == [n \in {} |-> Null]

\* new Environment(parent); parent 0 is "no enclosing Environment"
NewEnvironment(st, parent) ==
  [st EXCEPT !.envs = Append(@, [values |-> EmptyRecord, parent |-> parent])]

\* environment.add(name, value): define in this very scope
EnvAdd(st, e, name, value) ==
  LET old == st.envs[e].values
      new == [n \in DOMAIN old \cup {name} |->
                IF n = name THEN value ELSE old[n]]
  IN [st EXCEPT !.envs[e].values = new]

\* the innermost scope of the chain from e that holds name, or 0
RECURSIVE EnvLookup(_, _, _)
EnvLookup(envList, e, name) ==
  IF e = 0 THEN 0
  ELSE IF name \in DOMAIN envList[e].values THEN e
  ELSE EnvLookup(envList, envList[e].parent, name)

UndefinedVariable(name) ==
  RuntimeError(<<"Undefined variable ", name>>, Absent)

\* environment.get(name)
EnvGet(st, e, name) ==
  LET holder == EnvLookup(st.envs, e, name)
  IN IF holder = 0 THEN Throw(st, UndefinedVariable(name))
     ELSE Normal(st, st.envs[holder].values[name])

\* environment.assign(name, value)
EnvAssign(st, e, name, value) ==
  LET holder == EnvLookup(st.envs, e, name)
  IN IF holder = 0 THEN Throw(st, UndefinedVariable(name))
     ELSE Normal([st EXCEPT !.envs[holder].values[name] = value], value)

(***************************************************************************)
(* The Interpreter (src/unnamed/part_001).                                 *)
(***************************************************************************)
RECURSIVE visit(_, _)

\* checkNumberOperands with || for &&
checkNumberOperands_Either(node, left, right, st) ==
  IF TypeOf(left) = "number" \/ TypeOf(right) = "number"
  THEN Normal(st, Bool(TRUE))
  ELSE Throw(st, RuntimeError(<<"Operands must be numbers.">>, node))

\* checkNumberOperands(node, left, right)
checkNumberOperands(node, left, right, st) ==
  IF TypeOf(left) = "number" /\ TypeOf(right) = "number"
  THEN Normal(st, Bool(TRUE))
  ELSE Throw(st, RuntimeError(<<"Operands must be numbers.">>, node))

\* checkNumberOperand(node, operand)
checkNumberOperand(node, operand, st) ==
  IF TypeOf(operand) = "number"
  THEN Normal(st, Undefined)
  ELSE Throw(st, RuntimeError(<<"Operand must be number.">>, node))

visitIdentifier(node, st) == EnvGet(st, st.environment, node.name)

visitExpression(node, st) == visit(node.expression, st)

\* the typeof value !== "number" guard of -=, /= and *=
OperandMustBeANumber(node, value, st, next) ==
  IF TypeOf(value) # "number"
  THEN Throw(st, RuntimeError(<<"Operand must be a number">>, node))
  ELSE WithValue(EnvAssign(st, st.environment, node.left.name, next), next)

visitAssignmentExpression(node, st) ==
  LET r == visit(node.right, st) IN
  IF r.kind # "normal" THEN r
  ELSE
    LET value == r.val
        g == EnvGet(r.st, r.st.environment, node.left.name)
    IN IF g.kind # "normal" THEN g
       ELSE
         LET lhs == g.val
             s1 == g.st
         IN CASE node.operator = "=" ->
                   WithValue(EnvAssign(s1, s1.environment, node.left.name,
                                       value), lhs)
              [] node.operator = "+=" ->
                   WithValue(EnvAssign(s1, s1.environment, node.left.name,
                                       HostAdd(lhs, value)),
                             HostAdd(lhs, value))
              [] node.operator = "-=" ->
                   OperandMustBeANumber(node, value, s1,
                                        HostSub(lhs, value))
              [] node.operator = "/=" ->
                   OperandMustBeANumber(node, value, s1,
                                        HostDiv(lhs, value))
              [] node.operator = "*=" ->
                   OperandMustBeANumber(node, value, s1,
                                        HostMul(lhs, value))
              [] OTHER -> Normal(s1, lhs)

\* visitReturnStatement with `return new Return(value)` for the throw
visitReturnStatement_NoThrow(node, st) ==
  LET r == IF IsAbsent(node.argument) THEN Normal(st, Null)
           ELSE visit(node.argument, st)
  IN IF r.kind # "normal" THEN r
     ELSE Normal(Logged(r.st, [ev |-> "throw Return", value |-> r.val,
                               depth |-> r.st.depth]),
                 r.val)

visitReturnStatement(node, st) ==
  LET r == IF IsAbsent(node.argument) THEN Normal(st, Null)
           ELSE visit(node.argument, st)
  IN IF r.kind # "normal" THEN r
     ELSE Throw(Logged(r.st, [ev |-> "throw Return", value |-> r.val,
                              depth |-> r.st.depth]),
                Return(r.val))

\* new ToyLangFunction(node, this.environment)
ToyLangFunction(node, closure, id) ==
  [t |-> "function", declaration |-> node, closure |-> closure, id |-> id]

visitFunctionDeclaration(node, st) ==
  LET fun == ToyLangFunction(node, st.environment, st.nfun + 1)
  IN Normal(EnvAdd([st EXCEPT !.nfun = @ + 1], st.environment,
                   node.name.name, fun),
            Null)

visitVariableStatement(node, st) ==
  IF node.declarations = <<>> THEN Normal(st, Null)
  ELSE
    \* the loop body ends in `return null`: only the first declarator runs
    LET declaration == node.declarations[1]
        r == IF IsAbsent(declaration.init) THEN Normal(st, Null)
             ELSE visit(declaration.init, st)
    IN IF r.kind # "normal" THEN r
       ELSE Normal(EnvAdd(r.st, r.st.environment, declaration.id.name, r.val),
                   Null)

\* for (const statement of statements) this.visit(statement)
RECURSIVE visitStatements(_, _, _)
visitStatements(statements, i, st) ==
  IF i > Len(statements) THEN Normal(st, Undefined)
  ELSE LET r == visit(statements[i], st)
       IN IF r.kind # "normal" THEN r
          ELSE visitStatements(statements, i + 1, r.st)

\* executeBlock restoring the environment after the loop, without finally
executeBlock_NoFinally(statements, env, st) ==
  LET previous == st.environment
      entered == Logged([st EXCEPT !.environment = env, !.level = @ + 1],
                        [ev |-> "executeBlock", level |-> st.level + 1,
                         environment |-> previous])
      r == visitStatements(statements, 1, entered)
      restored == IF r.kind = "normal"
                  THEN [r.st EXCEPT !.environment = previous, !.level = @ - 1]
                  ELSE [r.st EXCEPT !.level = @ - 1]
      left == Logged(restored, [ev |-> "finally", level |-> r.st.level,
                                environment |-> restored.environment])
  IN IF r.kind = "running" THEN r ELSE [r EXCEPT !.st = left]

executeBlock(statements, env, st) ==
  LET previous == st.environment
      entered == Logged([st EXCEPT !.environment = env, !.level = @ + 1],
                        [ev |-> "executeBlock", level |-> st.level + 1,
                         environment |-> previous])
      r == visitStatements(statements, 1, entered)
      \* finally { this.environment = previous }
      restored == [r.st EXCEPT !.environment = previous, !.level = @ - 1]
      left == Logged(restored, [ev |-> "finally", level |-> r.st.level,
                                environment |-> restored.environment])
  IN IF r.kind = "running" THEN r ELSE [r EXCEPT !.st = left]

visitBlockStatement(node, st) ==
  LET created == NewEnvironment(st, st.environment)
  IN WithValue(executeBlock(node.body, Len(created.envs), created), Null)

visitIfStatement(node, st) ==
  LET test == visit(node.test, st) IN
  IF test.kind # "normal" THEN test
  ELSE IF ToBoolean(test.val)
  THEN WithValue(visit(node.consequent, test.st), Null)
  ELSE IF ~IsAbsent(node.alternate)
  THEN WithValue(visit(node.alternate, test.st), Null)
  ELSE Normal(test.st, Null)

\* one more iteration of a loop body, or the iteration bound
Iterate(st) == [st EXCEPT !.iters = @ + 1]

RECURSIVE visitWhileStatement(_, _)
visitWhileStatement(node, st) ==
  LET test == visit(node.test, st) IN
  IF test.kind # "normal" THEN test
  ELSE IF ~ToBoolean(test.val) THEN Normal(test.st, Null)
  ELSE IF test.st.iters >= MaxIter THEN Running(test.st)
  ELSE LET body == visit(node.body, Iterate(test.st))
       IN IF body.kind # "normal" THEN body
          ELSE visitWhileStatement(node, body.st)

\* for (;;) { this.visit(node.body) }
RECURSIVE ForEver(_, _)
ForEver(node, st) ==
  IF st.iters >= MaxIter THEN Running(st)
  ELSE LET body == visit(node.body, Iterate(st))
       IN IF body.kind # "normal" THEN body ELSE ForEver(node, body.st)

\* for (...; this.visit(node.test); this.visit(node.update)) { body }
RECURSIVE ForLoop(_, _)
ForLoop(node, st) ==
  LET test == visit(node.test, st) IN
  IF test.kind # "normal" THEN test
  ELSE IF ~ToBoolean(test.val) THEN Normal(test.st, Null)
  ELSE IF test.st.iters >= MaxIter THEN Running(test.st)
  ELSE LET body == visit(node.body, Iterate(test.st))
       IN IF body.kind # "normal" THEN body
          ELSE LET update == visit(node.update, body.st)
               IN IF update.kind # "normal" THEN update
                  ELSE ForLoop(node, update.st)

visitForStatement(node, st) ==
  IF IsAbsent(node.init) /\ IsAbsent(node.test) /\ IsAbsent(node.update)
  THEN ForEver(node, st)
  ELSE LET init == visit(node.init, st)
       IN IF init.kind # "normal" THEN init ELSE ForLoop(node, init.st)

visitBinaryExpression(node, st) ==
  LET op == node.operator
      l == visit(node.left, st)
  IN IF l.kind # "normal" THEN l
     ELSE
       LET r == visit(node.right, l.st) IN
       IF r.kind # "normal" THEN r
       ELSE
         LET left == l.val
             right == r.val
             s1 == r.st
             chk == checkNumberOperands(node, left, right, s1)
         IN CASE op = "==" -> Normal(s1, Bool(LooseEquals(left, right)))
              [] op = "!=" -> Normal(s1, Bool(~LooseEquals(left, right)))
              [] op = "+" ->
                   IF TypeOf(left) = "number" /\ TypeOf(right) = "number"
                   THEN Normal(s1, NumAdd(left, right))
                   ELSE IF TypeOf(left) = "string" /\ TypeOf(right) = "string"
                   THEN Normal(s1, Str(left.s \o right.s))
                   ELSE Throw(s1, RuntimeError(
                          <<"Runtime: Mismatched type, cannot ",
                            TypeOf(left), " + ", TypeOf(right)>>, node))
              [] op = "-" -> WithValue(chk, HostSub(left, right))
              [] op = "/" -> WithValue(chk, HostDiv(left, right))
              [] op = "*" -> WithValue(chk, HostMul(left, right))
              [] op = ">" -> WithValue(chk, Bool(HostLt(right, left)))
              [] op = "<" -> WithValue(chk, Bool(HostLt(left, right)))
              [] op = ">=" -> WithValue(chk, Bool(HostLe(right, left)))
              [] op = "<=" -> WithValue(chk, Bool(HostLe(left, right)))
              [] OTHER ->
                   Throw(s1, HostError("Error",
                                       "Runtime: Unknown Binary operation"))

visitLogicalExpression(node, st) ==
  LET l == visit(node.left, st) IN
  IF l.kind # "normal" THEN l
  ELSE
    LET r == visit(node.right, l.st) IN
    IF r.kind # "normal" THEN r
    ELSE CASE node.operator = "&&" ->
                Normal(r.st, IF ToBoolean(l.val) THEN r.val ELSE l.val)
           [] node.operator = "||" ->
                Normal(r.st, IF ToBoolean(l.val) THEN l.val ELSE r.val)
           [] OTHER ->
                Throw(r.st, HostError("Error",
                                      "Runtime: Unknown Logical operation"))

visitLiterals(node, st) ==
  CASE node.type \in {"NumericLiteral", "StringLiteral", "BooleanLiteral"} ->
         Normal(st, node.value)
    [] node.type = "NullLiteral" -> Normal(st, Null)
    [] OTHER -> Throw(st, HostError("SyntaxError",
                                    "Runtime: Unexpected literal"))

visitUnaryExpression(node, st) ==
  LET r == visit(node.argument, st) IN
  IF r.kind # "normal" THEN r
  ELSE CASE node.operator = "-" ->
              WithValue(checkNumberOperand(node, r.val, r.st),
                        NumNeg(ToNumber(r.val)))
         [] node.operator = "+" -> r
         [] node.operator = "!" -> Normal(r.st, Bool(~ToBoolean(r.val)))
         [] OTHER -> Normal(r.st, Null)

\* node.body.map((statement) => this.visit(statement))
visitProgram(node, st) == WithValue(visitStatements(node.body, 1, st), Null)

(***************************************************************************)
(* CallableFunction (src/interpreter/CallableFunction and StdLib, not part *)
(* of the sources at hand): arity() and call(interpreter, args).           *)
(***************************************************************************)
\* the variadic native of the standard library
print_fn == [t |-> "native", name |-> "print", arity |-> Inf(1)]

stdlib == [n \in {"print"} |-> print_fn]

\* callee.arity()
arity(callee) ==
  IF callee.t = "native" THEN callee.arity
  ELSE Num(Len(callee.declaration.params))

\* environment.add(params[i].name, args[i]) for every parameter
RECURSIVE BindParams(_, _, _, _, _)
BindParams(params, args, i, e, st) ==
  IF i > Len(params) THEN st
  ELSE BindParams(params, args, i + 1, e,
                  EnvAdd(st, e, params[i].name,
                         IF i <= Len(args) THEN args[i] ELSE Undefined))

\* callee.call(this, args)
call(callee, args, st) ==
  IF callee.t = "native"
  THEN Normal(Logged(st, [ev |-> "print", args |-> args]), Null)
  ELSE IF st.depth >= MaxDepth
  THEN Throw(st, HostError("RangeError", "Maximum call stack size exceeded"))
  ELSE
    LET created == NewEnvironment(st, callee.closure)
        e == Len(created.envs)
        bound == BindParams(callee.declaration.params, args, 1, e, created)
        entered == Logged([bound EXCEPT !.depth = @ + 1],
                          [ev |-> "call", callee |-> callee, args |-> args,
                           depth |-> st.depth + 1])
        r == executeBlock(callee.declaration.body.body, e, entered)
        back == [r.st EXCEPT !.depth = @ - 1]
    IN IF r.kind = "running" THEN r
       ELSE IF r.kind = "throw" /\ r.val.class = "Return"
       THEN Normal(Logged(back, [ev |-> "caught Return",
                                 value |-> r.val.value,
                                 depth |-> r.st.depth]),
                   r.val.value)
       ELSE IF r.kind = "throw" THEN Throw(back, r.val)
       ELSE Normal(back, Null)

\* for (const argument of node.arguments) args.push(this.visit(argument))
RECURSIVE visitArguments(_, _, _, _)
visitArguments(arguments, i, args, st) ==
  IF i > Len(arguments) THEN Normal(st, args)
  ELSE LET r == visit(arguments[i], st)
       IN IF r.kind # "normal" THEN r
          ELSE visitArguments(arguments, i + 1, Append(args, r.val), r.st)

\* value.prototype: none of the runtime values carries the property
Prototype(value) == Undefined

\* v instanceof CallableFunction
InstanceOfCallableFunction(v) == IsCallable(v)

\* the arity test with < for !=
arityMismatch_TooFewOnly(args, callee) ==
  NumLt(Num(Len(args)), arity(callee)) /\ arity(callee) # Inf(1)

\* args.length != callee.arity() && callee.arity() !== Infinity
arityMismatch(args, callee) ==
  ~NumEq(Num(Len(args)), arity(callee)) /\ arity(callee) # Inf(1)

visitCallExpression(node, st) ==
  LET c == visit(node.callee, st) IN
  IF c.kind # "normal" THEN c
  ELSE
    LET callee == c.val IN
    IF callee.t \in {"null", "undefined"}
    THEN Throw(c.st, HostError("TypeError",
                               "Cannot read properties of null"))
    ELSE IF InstanceOfCallableFunction(Bool(~ToBoolean(Prototype(callee))))
    THEN Throw(c.st, RuntimeError(<<"Can only call functions and classes">>,
                                  node))
    ELSE
      LET a == visitArguments(node.arguments, 1, <<>>, c.st) IN
      IF a.kind # "normal" THEN a
      ELSE
        LET args == a.val IN
        IF ~IsCallable(callee)
        THEN Throw(a.st, HostError("TypeError",
                                   "callee.arity is not a function"))
        ELSE IF arityMismatch(args, callee)
        THEN Throw(a.st, RuntimeError(
               <<"Expected ", arity(callee), " arguments but got ",
                 Num(Len(args)), ".">>, node))
        ELSE call(callee, args, a.st)

visit(node, st) ==
  IF IsAbsent(node) THEN Normal(st, Undefined)
  ELSE
    LET s1 == Logged(st, [ev |-> "visit", node |-> node, depth |-> st.depth])
    IN CASE node.type = "ExpressionStatement" -> visitExpression(node, s1)
         [] node.type = "IfStatement" -> visitIfStatement(node, s1)
         [] node.type = "WhileStatement" -> visitWhileStatement(node, s1)
         [] node.type = "ForStatement" -> visitForStatement(node, s1)
         [] node.type = "VariableStatement" ->
              visitVariableStatement(node, s1)
         [] node.type = "BlockStatement" -> visitBlockStatement(node, s1)
         [] node.type = "CallExpression" -> visitCallExpression(node, s1)
         [] node.type = "UnaryExpression" -> visitUnaryExpression(node, s1)
         [] node.type = "BinaryExpression" -> visitBinaryExpression(node, s1)
         [] node.type = "LogicalExpression" ->
              visitLogicalExpression(node, s1)
         [] node.type = "AssignmentExpression" ->
              visitAssignmentExpression(node, s1)
         [] node.type = "FunctionDeclaration" ->
              visitFunctionDeclaration(node, s1)
         [] node.type = "ReturnStatement" -> visitReturnStatement(node, s1)
         [] node.type = "Program" -> visitProgram(node, s1)
         [] node.type \in {"NumericLiteral", "StringLiteral"} ->
              visitLiterals(node, s1)
         [] node.type = "Identifier" -> visitIdentifier(node, s1)
         [] OTHER -> Normal(s1, Null)

(***************************************************************************)
(* AST node constructors, with the fields the interpreter reads.           *)
(***************************************************************************)
NumericLiteral(i) == [type |-> "NumericLiteral", value |-> Num(i)]
StringLiteral(chars) == [type |-> "StringLiteral", value |-> Str(chars)]
BooleanLiteral(b) == [type |-> "BooleanLiteral", value |-> Bool(b)]
NullLiteral == [type |-> "NullLiteral", value |-> Null]
Identifier(name) == [type |-> "Identifier", name |-> name]
ExpressionStatement(e) == [type |-> "ExpressionStatement", expression |-> e]
BlockStatement(body) == [type |-> "BlockStatement", body |-> body]
IfStatement(test, consequent, alternate) ==
  [type |-> "IfStatement", test |-> test, consequent |-> consequent,
   alternate |-> alternate]
WhileStatement(test, body) ==
  [type |-> "WhileStatement", test |-> test, body |-> body]
ForStatement(init, test, update, body) ==
  [type |-> "ForStatement", init |-> init, test |-> test, update |-> update,
   body |-> body]
VariableDeclaration(name, init) == [id |-> Identifier(name), init |-> init]
VariableStatement(declarations) ==
  [type |-> "VariableStatement", declarations |-> declarations]
FunctionDeclaration(name, params, body) ==
  [type |-> "FunctionDeclaration", name |-> Identifier(name),
   params |-> params, body |-> BlockStatement(body)]
ReturnStatement(argument) ==
  [type |-> "ReturnStatement", argument |-> argument]
CallExpression(callee, arguments) ==
  [type |-> "CallExpression", callee |-> callee, arguments |-> arguments]
UnaryExpression(operator, argument) ==
  [type |-> "UnaryExpression", operator |-> operator, argument |-> argument]
BinaryExpression(operator, left, right) ==
  [type |-> "BinaryExpression", operator |-> operator, left |-> left,
   right |-> right]
LogicalExpression(operator, left, right) ==
  [type |-> "LogicalExpression", operator |-> operator, left |-> left,
   right |-> right]
AssignmentExpression(operator, name, right) ==
  [type |-> "AssignmentExpression", operator |-> operator,
   left |-> Identifier(name), right |-> right]
Program(body) == [type |-> "Program", body |-> body]

(***************************************************************************)
(* Environments no value can reach any more are reclaimed by the host.     *)
(***************************************************************************)
Range(f) == {f[k] : k \in DOMAIN f}

\* the Environments an Environment refers to: its parent, and the closures
\* of the functions it holds
EnvRefs(envList, e) ==
  ({envList[e].parent}
     \cup {v.closure : v \in {w \in Range(envList[e].values) :
                                w.t = "function"}}) \ {0}

RECURSIVE Reachable(_, _)
Reachable(envList, S) ==
  LET T == S \cup UNION {EnvRefs(envList, e) : e \in S}
  IN IF T = S THEN S ELSE Reachable(envList, T)

Max(S) == CHOOSE m \in S : \A k \in S : k <= m

Reclaimed(envList, roots) ==
  LET live == Reachable(envList, roots)
  IN [e \in 1..Max(live) |->
        IF e \in live THEN envList[e]
        ELSE [values |-> EmptyRecord, parent |-> 0]]

(***************************************************************************)
(* The state machine: one Interpreter instance and its caller.             *)
(*   envs, environment, nfun   the instance (globals is Environment 1)     *)
(*   ast                       this.ast, set by execute                    *)
(*   input                     the node handed to the last handler         *)
(*   result, log               how that handler completed, and its trace   *)
(*   nexec                     handlers invoked so far                     *)
(* and one Tokenizer instance and its caller.                              *)
(*   string, cursor            the instance's fields, as host values,      *)
(*                             undefined until init                        *)
(*   token                     how the last getNextToken completed         *)
(***************************************************************************)
VARIABLES envs, environment, nfun, ast, input, result, log, nexec,
          string, cursor, token
vars == <<envs, environment, nfun, ast, input, result, log, nexec,
          string, cursor, token>>

globals == 1

\* nothing invoked, or the last completion has been consumed by the caller
Idle == [kind |-> "idle"]

\* new Interpreter()
Init ==
  /\ envs = <<[values |-> stdlib, parent |-> 0]>>
  /\ environment = globals
  /\ nfun = 0
  /\ ast = Absent
  /\ input = Absent
  /\ result = Idle
  /\ log = <<>>
  /\ nexec = 0
  /\ string = Undefined
  /\ cursor = Undefined
  /\ token = Idle

\* the instance as a handler finds it
Entry ==
  [envs |-> envs, environment |-> environment, nfun |-> nfun, log |-> <<>>,
   depth |-> 0, iters |-> 0, level |-> 0]

CanInvoke == result = Idle /\ nexec < MaxExecs

\* the instance and the caller's view after the handler completed with r
Completes(node, r) ==
  /\ envs' = Reclaimed(r.st.envs,
                       {globals, r.st.environment}
                         \cup (IF r.kind = "normal" /\ r.val.t = "function"
                               THEN {r.val.closure} ELSE {}))
  /\ environment' = r.st.environment
  /\ nfun' = r.st.nfun
  /\ input' = node
  /\ result' = [kind |-> r.kind, val |-> r.val]
  /\ log' = r.st.log
  /\ nexec' = nexec + 1
  /\ UNCHANGED <<string, cursor, token>>

(***************************************************************************)
(* The programs handed to the interpreter: what the parser builds from     *)
(* small source texts.                                                     *)
(***************************************************************************)
Literals ==
  {NumericLiteral(i) : i \in 0..MaxNum}
    \cup {StringLiteral(<<>>), StringLiteral(<<"a">>), StringLiteral(<<"1">>),
          BooleanLiteral(TRUE), BooleanLiteral(FALSE), NullLiteral}

\* `0 < 1` and `1 < 0`: expressions whose values are the booleans
Less(i, j) == BinaryExpression("<", NumericLiteral(i), NumericLiteral(j))

\* print("...")
Say(chars) ==
  ExpressionStatement(
    CallExpression(Identifier("print"), <<StringLiteral(chars)>>))

\* 0 / 0, the number NaN
ZeroByZero == BinaryExpression("/", NumericLiteral(0), NumericLiteral(0))

Operands ==
  Literals \cup {Identifier("x"), Identifier("print"), Less(0, 1), Less(1, 0),
                 ZeroByZero}

BinaryOperators ==
  {"==", "!=", "+", "-", "/", "*", ">", "<", ">=", "<="}

\* operands of every runtime type: numbers, strings, a boolean, null, a
\* callable, and whatever x holds
BinaryOperands ==
  {NumericLiteral(0), NumericLiteral(1), StringLiteral(<<>>),
   StringLiteral(<<"1">>), StringLiteral(<<"a">>), NullLiteral, Less(0, 1),
   Identifier("x"), Identifier("print")}

BinaryExpressions ==
  {BinaryExpression(op, l, r) : op \in BinaryOperators,
                                 l \in BinaryOperands, r \in BinaryOperands}

\* right operands with an effect (a call of print, an assignment) or an
\* error (a call of an undeclared function)
RightOperands ==
  {CallExpression(Identifier("print"), <<StringLiteral(<<"r">>)>>),
   CallExpression(Identifier("rightSideNeverEvaluated"), <<>>),
   AssignmentExpression("=", "x", NumericLiteral(1)),
   StringLiteral(<<"r">>)}

LogicalExpressions ==
  {LogicalExpression(op, l, r) : op \in {"&&", "||"},
                                  l \in Operands, r \in RightOperands}

UnaryExpressions ==
  {UnaryExpression(op, a) : op \in {"-", "+", "!"}, a \in Operands}

Consequent == BlockStatement(<<Say(<<"A">>), Say(<<"A", "A">>)>>)
Alternate == BlockStatement(<<Say(<<"B">>)>>)

IfStatements ==
  {IfStatement(t, Consequent, alt) :
     t \in Operands \cup {UnaryExpression("!", Identifier("x"))},
     alt \in {Absent, Alternate}}

WhileStatements ==
  {WhileStatement(t, b) :
     t \in Operands,
     b \in {BlockStatement(<<Say(<<"A">>)>>),
            ExpressionStatement(AssignmentExpression("=", "x", NullLiteral))}}

ForBodies ==
  {BlockStatement(<<Say(<<"A">>)>>),
   BlockStatement(<<Say(<<"A">>), ReturnStatement(Absent)>>),
   ExpressionStatement(CallExpression(Identifier("undeclared"), <<>>))}

ForStatements ==
  {ForStatement(i, t, u, b) :
     i \in {Absent,
            VariableStatement(<<VariableDeclaration("i", NumericLiteral(0))>>)},
     t \in {Absent, BinaryExpression("<", Identifier("i"), NumericLiteral(2)),
            NumericLiteral(0), StringLiteral(<<>>), StringLiteral(<<"a">>),
            NullLiteral},
     u \in {Absent, AssignmentExpression("+=", "i", NumericLiteral(1))},
     b \in ForBodies}

VariableStatements ==
  {VariableStatement(<<VariableDeclaration("x", init)>>) :
     init \in {Absent, NumericLiteral(0), NumericLiteral(1),
               StringLiteral(<<"a">>), Less(0, 1)}}
    \cup {VariableStatement(<<VariableDeclaration("x", NumericLiteral(1)),
                              VariableDeclaration("y", NumericLiteral(2))>>)}

AssignmentExpressions ==
  {AssignmentExpression(op, "x", r) :
     op \in {"=", "+=", "-=", "/=", "*="},
     r \in {NumericLiteral(1), StringLiteral(<<"a">>), NullLiteral}}
    \cup {AssignmentExpression("=", "undeclared", NumericLiteral(1)),
          AssignmentExpression("=", "x",
                               AssignmentExpression("=", "y",
                                                    NumericLiteral(2)))}

\* def f(n) { print("body"); WapisBhejo n; }
Echo ==
  FunctionDeclaration("f", <<Identifier("n")>>,
    <<Say(<<"b", "o", "d", "y">>), ReturnStatement(Identifier("n"))>>)

\* def f(n) { Agr (n == 0) { WapisBhejo 1; } WapisBhejo n * f(n - 1); }
Factorial ==
  FunctionDeclaration("f", <<Identifier("n")>>,
    <<IfStatement(BinaryExpression("==", Identifier("n"), NumericLiteral(0)),
                  BlockStatement(<<ReturnStatement(NumericLiteral(1))>>),
                  Absent),
      ReturnStatement(
        BinaryExpression("*", Identifier("n"),
          CallExpression(Identifier("f"),
            <<BinaryExpression("-", Identifier("n"), NumericLiteral(1))>>)))>>)

\* def f(n) { JabTak (1) { { Agr (n) { WapisBhejo n; } print("A"); }
\*            print("B"); WapisBhejo; } print("C"); }
ReturnFromLoop ==
  FunctionDeclaration("f", <<Identifier("n")>>,
    <<WhileStatement(NumericLiteral(1),
        BlockStatement(
          <<BlockStatement(
              <<IfStatement(Identifier("n"),
                            BlockStatement(
                              <<ReturnStatement(Identifier("n"))>>),
                            Absent),
                Say(<<"A">>)>>),
            Say(<<"B">>),
            ReturnStatement(Absent)>>)),
      Say(<<"C">>)>>)

\* def f(n) { for (;;) { WapisBhejo f; } }
ReturnFromFor ==
  FunctionDeclaration("f", <<Identifier("n")>>,
    <<ForStatement(Absent, Absent, Absent,
                   BlockStatement(<<ReturnStatement(Identifier("f"))>>))>>)

\* def f(n) { { Banao y = n; undeclared; } }
FailInBlock ==
  FunctionDeclaration("f", <<Identifier("n")>>,
    <<BlockStatement(
        <<VariableStatement(<<VariableDeclaration("y", Identifier("n"))>>),
          ExpressionStatement(Identifier("undeclared"))>>)>>)

FunctionDeclarations ==
  {Echo, Factorial, ReturnFromLoop, ReturnFromFor, FailInBlock}

Callees ==
  {Identifier("f"), Identifier("print"), Identifier("x"), NumericLiteral(1),
   StringLiteral(<<"a">>), NullLiteral, Less(0, 1)}

ArgumentLists ==
  {<<>>, <<NumericLiteral(0)>>, <<NumericLiteral(MaxNum)>>,
   <<NumericLiteral(1), StringLiteral(<<"a">>)>>}

CallExpressions ==
  {CallExpression(c, a) : c \in Callees, a \in ArgumentLists}

\* blocks that end normally, by an error and by a return, nested or not
BlockStatements ==
  {BlockStatement(<<>>),
   BlockStatement(
     <<VariableStatement(<<VariableDeclaration("y", NumericLiteral(1))>>)>>),
   BlockStatement(
     <<VariableStatement(<<VariableDeclaration("y", NumericLiteral(1))>>),
       ExpressionStatement(Identifier("undeclared"))>>),
   BlockStatement(
     <<BlockStatement(
         <<VariableStatement(
             <<VariableDeclaration("y", NumericLiteral(1))>>),
           ReturnStatement(Identifier("y"))>>),
       Say(<<"A">>)>>),
   BlockStatement(
     <<BlockStatement(
         <<VariableStatement(
             <<VariableDeclaration("y", NumericLiteral(1))>>)>>),
       ExpressionStatement(Identifier("y"))>>),
   BlockStatement(
     <<ExpressionStatement(
         CallExpression(Identifier("f"), <<NumericLiteral(1)>>)),
       Say(<<"A">>)>>),
   BlockStatement(<<Echo>>)}

Identifiers ==
  {Identifier(n) : n \in {"x", "y", "i", "f", "print", "undeclared"}}

ReturnStatements ==
  {ReturnStatement(a) : a \in {Absent, NumericLiteral(1), Identifier("x")}}

ExpressionStatements ==
  {ExpressionStatement(e) :
     e \in {NumericLiteral(1), Identifier("x"),
            CallExpression(Identifier("f"), <<NumericLiteral(MaxNum)>>)}}

\* Banao x = 0; Banao y = 1; x = y = 2;
ChainedAssignment ==
  Program(<<VariableStatement(<<VariableDeclaration("x", NumericLiteral(0))>>),
            VariableStatement(<<VariableDeclaration("y", NumericLiteral(1))>>),
            ExpressionStatement(
              AssignmentExpression("=", "x",
                AssignmentExpression("=", "y", NumericLiteral(2))))>>)

Programs ==
  {Program(<<>>),
   Program(<<Factorial,
             ExpressionStatement(
               CallExpression(Identifier("print"),
                 <<CallExpression(Identifier("f"),
                                  <<NumericLiteral(MaxNum)>>)>>))>>),
   Program(<<BlockStatement(
               <<VariableStatement(
                   <<VariableDeclaration("x", NumericLiteral(1))>>)>>),
             ExpressionStatement(
               CallExpression(Identifier("print"), <<Identifier("x")>>))>>),
   Program(<<ReturnFromLoop,
             VariableStatement(
               <<VariableDeclaration("x",
                   CallExpression(Identifier("f"),
                                  <<NumericLiteral(1)>>))>>)>>),
   Program(<<ReturnStatement(NumericLiteral(1)), Say(<<"A">>)>>),
   ChainedAssignment}

(***************************************************************************)
(* Actions: the caller hands a node to the instance, and visit dispatches   *)
(* it to the handler of its type; one action per handler.                  *)
(***************************************************************************)
\* interpreter.execute(ast)
Execute ==
  \E node \in Programs :
    /\ CanInvoke
    /\ ast' = node
    /\ Completes(node, visit(node, Entry))

VisitIdentifier ==
  \E node \in Identifiers :
    /\ CanInvoke
    /\ UNCHANGED ast
    /\ Completes(node, visit(node, Entry))

VisitExpression ==
  \E node \in ExpressionStatements :
    /\ CanInvoke
    /\ UNCHANGED ast
    /\ Completes(node, visit(node, Entry))

VisitAssignmentExpression ==
  \E node \in AssignmentExpressions :
    /\ CanInvoke
    /\ UNCHANGED ast
    /\ Completes(node, visit(node, Entry))

VisitReturnStatement ==
  \E node \in ReturnStatements :
    /\ CanInvoke
    /\ UNCHANGED ast
    /\ Completes(node, visit(node, Entry))

VisitFunctionDeclaration ==
  \E node \in FunctionDeclarations :
    /\ CanInvoke
    /\ UNCHANGED ast
    /\ Completes(node, visit(node, Entry))

VisitCallExpression ==
  \E node \in CallExpressions :
    /\ CanInvoke
    /\ UNCHANGED ast
    /\ Completes(node, visit(node, Entry))

VisitVariableStatement ==
  \E node \in VariableStatements :
    /\ CanInvoke
    /\ UNCHANGED ast
    /\ Completes(node, visit(node, Entry))

VisitBlockStatement ==
  \E node \in BlockStatements :
    /\ CanInvoke
    /\ UNCHANGED ast
    /\ Completes(node, visit(node, Entry))

VisitIfStatement ==
  \E node \in IfStatements :
    /\ CanInvoke
    /\ UNCHANGED ast
    /\ Completes(node, visit(node, Entry))

VisitWhileStatement ==
  \E node \in WhileStatements :
    /\ CanInvoke
    /\ UNCHANGED ast
    /\ Completes(node, visit(node, Entry))

VisitForStatement ==
  \E node \in ForStatements :
    /\ CanInvoke
    /\ UNCHANGED ast
    /\ Completes(node, visit(node, Entry))

VisitBinaryExpression ==
  \E node \in BinaryExpressions :
    /\ CanInvoke
    /\ UNCHANGED ast
    /\ Completes(node, visit(node, Entry))

VisitLogicalExpression ==
  \E node \in LogicalExpressions :
    /\ CanInvoke
    /\ UNCHANGED ast
    /\ Completes(node, visit(node, Entry))

VisitLiterals ==
  \E node \in Literals :
    /\ CanInvoke
    /\ UNCHANGED ast
    /\ Completes(node, visit(node, Entry))

VisitUnaryExpression ==
  \E node \in UnaryExpressions :
    /\ CanInvoke
    /\ UNCHANGED ast
    /\ Completes(node, visit(node, Entry))

\* a handler has returned or thrown: its caller goes on (examples/runner.ts
\* drops what execute returns); a handler that is still running never
\* gives control back
Discard ==
  /\ result # Idle
  /\ result.kind \in {"normal", "throw"}
  /\ result' = Idle
  /\ log' = <<>>
  /\ input' = Absent
  /\ UNCHANGED <<envs, environment, nfun, ast, nexec, string, cursor, token>>

Next ==
  \/ Execute
  \/ VisitIdentifier
  \/ VisitExpression
  \/ VisitAssignmentExpression
  \/ VisitReturnStatement
  \/ VisitFunctionDeclaration
  \/ VisitCallExpression
  \/ VisitVariableStatement
  \/ VisitBlockStatement
  \/ VisitIfStatement
  \/ VisitWhileStatement
  \/ VisitForStatement
  \/ VisitBinaryExpression
  \/ VisitLogicalExpression
  \/ VisitLiterals
  \/ VisitUnaryExpression
  \/ Discard

Spec == Init /\ [][Next]_vars

(***************************************************************************)
(* The Tokenizer.  A source is a sequence of characters.  A pattern of the *)
(* rule list is a record that exec interprets as the host's RegExp does;   *)
(* every pattern is anchored at the start of the remaining source.         *)
(***************************************************************************)
MaxLen == 3

Letters ==
  {"a", "b", "c", "d", "e", "f", "g", "h", "i", "j", "k", "l", "m", "n", "o",
   "p", "q", "r", "s", "t", "u", "v", "w", "x", "y", "z", "A", "B", "C", "D",
   "E", "F", "G", "H", "I", "J", "K", "L", "M", "N", "O", "P", "Q", "R", "S",
   "T", "U", "V", "W", "X", "Y", "Z"}

\* \d, \w, \s and the characters that are none of these
DigitChars == {Digits[i] : i \in 1..10}
WordChars == Letters \cup DigitChars \cup {"_"}
SpaceChars == {" ", "\t", "\n", "\r"}
OtherChars ==
  {";", "}", "{", "(", ")", ",", ".", "]", "[", "=", "!", "*", "/", "+", "-",
   ">", "<", "&", "|", "\"", "'", "#"}

\* [\s\S] and .
AnyChar == WordChars \cup SpaceChars \cup OtherChars
Dot == AnyChar \ {"\n", "\r"}

\* /^c1c2...cn r*/ : one character of each class, then the longest run of r
Classes(classes) == [re |-> "seq", classes |-> classes, run |-> {}]
ClassesRun(classes, run) == [re |-> "seq", classes |-> classes, run |-> run]
\* /^\bword\b/
Word(chars) == [re |-> "word", chars |-> chars]
\* /^ab?/
Optional(first, second) ==
  [re |-> "optional", first |-> first, second |-> second]
\* /^q[^q\n]*q/
Quoted(q) == [re |-> "quoted", quote |-> q]
\* /^\/\*[\s\S]*?\*\//
BlockComment == [re |-> "blockComment"]

Lit(chars) == Classes([i \in 1..Len(chars) |-> {chars[i]}])

\* the length of the longest run of characters of class in str from i on
RECURSIVE RunLength(_, _, _)
RunLength(str, class, i) ==
  IF i <= Len(str) /\ str[i] \in class
  THEN 1 + RunLength(str, class, i + 1)
  ELSE 0

StartsWith(str, classes) ==
  /\ Len(str) >= Len(classes)
  /\ \A i \in 1..Len(classes) : str[i] \in classes[i]

\* regex.exec(string): the match, or null
exec(regex, str) ==
  CASE regex.re = "seq" ->
         IF StartsWith(str, regex.classes)
         THEN [m |-> SubSeq(str, 1,
                            Len(regex.classes)
                              + RunLength(str, regex.run,
                                          Len(regex.classes) + 1))]
         ELSE Null
    [] regex.re = "word" ->
         LET n == Len(regex.chars) IN
         IF /\ Len(str) >= n
            /\ SubSeq(str, 1, n) = regex.chars
            /\ (Len(str) = n \/ str[n + 1] \notin WordChars)
         THEN [m |-> regex.chars]
         ELSE Null
    [] regex.re = "optional" ->
         IF str # <<>> /\ str[1] \in regex.first
         THEN IF Len(str) >= 2 /\ str[2] \in regex.second
              THEN [m |-> SubSeq(str, 1, 2)]
              ELSE [m |-> SubSeq(str, 1, 1)]
         ELSE Null
    [] regex.re = "quoted" ->
         IF str # <<>> /\ str[1] = regex.quote
         THEN LET n == RunLength(str, AnyChar \ {regex.quote, "\n"}, 2)
              IN IF Len(str) >= n + 2 /\ str[n + 2] = regex.quote
                 THEN [m |-> SubSeq(str, 1, n + 2)]
                 ELSE Null
         ELSE Null
    [] regex.re = "blockComment" ->
         IF StartsWith(str, <<{"/"}, {"*"}>>)
         THEN LET ends == {k \in 3..(Len(str) - 1) :
                             str[k] = "*" /\ str[k + 1] = "/"}
              IN IF ends = {} THEN Null
                 ELSE [m |-> SubSeq(str, 1,
                          1 + CHOOSE k \in ends : \A j \in ends : k <= j)]
         ELSE Null

\* the rule list
\* [pattern, type] of the rule list; the type of text to skip is null
Rule(regex, type) == [regex |-> regex, type |-> type]
Skip(regex) == [regex |-> regex]
IsSkip(rule) == "type" \notin DOMAIN rule

spec ==
  <<Skip(ClassesRun(<<SpaceChars>>, SpaceChars)),
    Skip(ClassesRun(<<{"/"}, {"/"}>>, Dot)),
    Skip(BlockComment),
    Rule(Lit(<<";">>), "SEMI"),
    Rule(Lit(<<"}">>), "CURLY_END"),
    Rule(Lit(<<"{">>), "CURLY_START"),
    Rule(Lit(<<"(">>), "PAREN_START"),
    Rule(Lit(<<")">>), "PAREN_END"),
    Rule(Lit(<<",">>), "COMMA"),
    Rule(Lit(<<".">>), "DOT"),
    Rule(Lit(<<"]">>), "BRACKET_END"),
    Rule(Lit(<<"[">>), "BRACKET_START"),
    Rule(Word(<<"B", "a", "n", "a", "o">>), "let"),
    Rule(Word(<<"A", "g", "r">>), "if"),
    Rule(Word(<<"W", "a", "r", "n", "a">>), "else"),
    Rule(Word(<<"J", "a", "b", "T", "a", "k">>), "while"),
    Rule(Word(<<"K", "a", "r", "o">>), "do"),
    Rule(Word(<<"f", "o", "r">>), "for"),
    Rule(Word(<<"S", "a", "h", "i">>), "true"),
    Rule(Word(<<"G", "h", "a", "l", "a", "t">>), "false"),
    Rule(Word(<<"n", "u", "l", "l">>), "null"),
    Rule(Word(<<"d", "e", "f">>), "def"),
    Rule(Word(<<"W", "a", "p", "i", "s", "B", "h", "e", "j", "o">>), "return"),
    Rule(Word(<<"c", "l", "a", "s", "s">>), "class"),
    Rule(Word(<<"n", "e", "w">>), "new"),
    Rule(Word(<<"t", "h", "i", "s">>), "this"),
    Rule(Word(<<"s", "u", "p", "e", "r">>), "super"),
    Rule(Word(<<"e", "x", "t", "e", "n", "d", "s">>), "extends"),
    Rule(ClassesRun(<<DigitChars>>, DigitChars), "NUMBER"),
    Rule(ClassesRun(<<WordChars>>, WordChars), "IDENTIFIER"),
    Rule(Classes(<<{"=", "!"}, {"="}>>), "EQUALITY_OPERATOR"),
    Rule(Lit(<<"=">>), "SIMPLE_ASSIGNMENT"),
    Rule(Classes(<<{"*", "/", "+", "-"}, {"="}>>), "COMPLEX_ASSIGNMENT"),
    Rule(Classes(<<{"+", "-"}>>), "ADDITITIVE_OPERATOR"),
    Rule(Classes(<<{"*", "/"}>>), "MULTIPLICATIVE_OPERATOR"),
    Rule(Optional({">", "<"}, {"="}), "RELATIONAL_OPERATOR"),
    Rule(Lit(<<"&", "&">>), "LOGICAL_AND"),
    Rule(Lit(<<"|", "|">>), "LOGICAL_OR"),
    Rule(Lit(<<"!">>), "LOGICAL_NOT"),
    Rule(Quoted("\""), "STRING"),
    Rule(Quoted("'"), "STRING")>>

\* the Tokenizer's fields
Tokenizer(str, cur) == [string |-> str, cursor |-> cur]

\* tokenizer.init(string)
init(str) == Tokenizer(str \o <<"\n">>, 0)

hasMoreTokens(tk) == tk.cursor < Len(tk.string)

isEOF(tk) == tk.cursor = Len(tk.string)

\* this._match(regex, string): the match or null, and the cursor afterwards
\* (start is computed from the cursor after the match with one too many
\* subtracted)
_match(regex, str, tk) ==
  LET matched == exec(regex, str) IN
  IF matched = Null THEN [tk |-> tk, val |-> Null]
  ELSE [tk |-> [tk EXCEPT !.cursor = @ + Len(matched.m)],
        val |-> Str(matched.m)]

\* new ToyLangParserError({type: "SyntaxError", ...})
ToyLangParserError(message, code, loc) ==
  [class |-> "ToyLangParserError", type |-> "SyntaxError",
   message |-> message, code |-> code, loc |-> loc]

Token(type, value, start, end) ==
  [type |-> type, value |-> value, start |-> start, end |-> end]

RECURSIVE getNextToken(_)

\* for (let [regex, type] of spec) ..., from rule i on
RECURSIVE matchRules(_, _, _)
matchRules(i, str, tk) ==
  IF i > Len(spec)
  THEN LET isStringUnfinished == str[1] = "\"" \/ str[1] = "'"
       IN [tk |-> tk, kind |-> "throw",
           val |-> ToyLangParserError(
                     IF isStringUnfinished
                     THEN <<"Unterminated string literal">>
                     ELSE <<"Invalid token: ", str[1]>>,
                     tk.string,
                     [start |-> tk.cursor, end |-> tk.cursor + 1])]
  ELSE
    LET r == _match(spec[i].regex, str, tk)
        tokenValue == r.val
    IN IF tokenValue = Null THEN matchRules(i + 1, str, tk)
       ELSE IF IsSkip(spec[i]) THEN getNextToken(r.tk)
       ELSE [tk |-> r.tk, kind |-> "normal",
             val |-> Token(spec[i].type, tokenValue,
                           r.tk.cursor - Len(tokenValue.s) - 1,
                           r.tk.cursor)]

getNextToken(tk) ==
  IF ~hasMoreTokens(tk) \/ isEOF(tk)
  THEN [tk |-> tk, kind |-> "normal", val |-> Null]
  ELSE matchRules(1, SubSeq(tk.string, tk.cursor + 1, Len(tk.string)), tk)

(***************************************************************************)
(* The sources handed to the tokenizer: every text of up to MaxLen         *)
(* characters of a small alphabet, and some statements of the language.    *)
(***************************************************************************)
Alphabet == {" ", "x", "1", "=", ";", "\"", "/", "*", "#"}

RECURSIVE Texts(_)
Texts(n) ==
  IF n = 0 THEN {<<>>}
  ELSE LET shorter == Texts(n - 1)
       IN shorter \cup {Append(t, c) : t \in shorter, c \in Alphabet}

Statements ==
  {<<"B", "a", "n", "a", "o", " ", "x", " ", "=", " ", "1", ";">>,
   <<"f", "o", "r", "(", ";", ";", ")", "{", "}">>,
   <<"f", "o", "r", "x", " ", "n", "u", "l", "l">>,
   <<"x", " ", "<", "=", " ", "1", " ", "&", "&", " ", "!", "y">>,
   <<"p", "r", "i", "n", "t", "(", "'", "a", "'", ")", ";">>,
   <<"x", " ", "|", "|", " ", ">", " ", "|">>,
   <<"/", "*", " ", "*", "/", "x", "/", "*", "*", "/", "/", "/", "*", "/">>}

Sources == Texts(MaxLen) \cup Statements

\* tokenizer.init(source).  init overwrites both fields, so a second init
\* leads to the states of a first one: a behaviour follows one source.
InitTokenizer ==
  \E source \in Sources :
    /\ string = Undefined
    /\ string' = Str(init(source).string)
    /\ cursor' = Num(init(source).cursor)
    /\ token' = Idle
    /\ UNCHANGED <<envs, environment, nfun, ast, input, result, log, nexec>>

\* tokenizer.getNextToken(); on a Tokenizer without init the read of
\* this.string.length fails in the host
GetNextToken ==
  /\ IF string = Undefined
     THEN /\ token' = [kind |-> "throw",
                       val |-> HostError("TypeError",
                                 <<"Cannot read properties of undefined">>)]
          /\ UNCHANGED <<string, cursor>>
     ELSE LET r == getNextToken(Tokenizer(string.s, cursor.n))
          IN /\ string' = Str(r.tk.string)
             /\ cursor' = Num(r.tk.cursor)
             /\ token' = [kind |-> r.kind, val |-> r.val]
  /\ UNCHANGED <<envs, environment, nfun, ast, input, result, log, nexec>>

TokenizerNext ==
  \/ InitTokenizer
  \/ GetNextToken

TokenizerSpec == Init /\ [][TokenizerNext]_vars

(***************************************************************************)
(* Properties.                                                             *)
(***************************************************************************)
\* the last handler invoked was the one for nodes of this type
Invoked(type) == ~IsAbsent(input) /\ result # Idle /\ input.type = type

\* the handler invoked last has come to an end
Ended == result # Idle /\ result.kind \in {"normal", "throw"}

Failed == result # Idle /\ result.kind = "throw"

\* visit was called on this node during the last execution
Visited(node) ==
  \E i \in 1..Len(log) : log[i].ev = "visit" /\ log[i].node = node

\* the nodes of S in the order visit was called on them
VisitsOf(S) ==
  LET OfS(e) == e.ev = "visit" /\ e.node \in S
      sel == SelectSeq(log, OfS)
  IN [i \in 1..Len(sel) |-> sel[i].node]

\* C1: for an if statement with an else branch whose test is a boolean
\* literal, the statements evaluated are exactly those of the alternate when
\* the literal is false and exactly those of the consequent when it is true.
C1_IfOnBooleanLiteral ==
  (/\ Invoked("IfStatement")
   /\ ~IsAbsent(input.alternate)
   /\ input.test.type = "BooleanLiteral")
  => VisitsOf(Range(input.consequent.body) \cup Range(input.alternate.body))
       = IF input.test.value.b THEN input.consequent.body
         ELSE input.alternate.body

\* left operands that are falsy, and left operands that are truthy, under
\* every reading of truthiness
FalsyLefts == {BooleanLiteral(FALSE), NullLiteral, Less(1, 0)}
TruthyLefts == {Less(0, 1), NumericLiteral(1), StringLiteral(<<"a">>)}

\* C2: a logical expression short-circuits: for l && r with l falsy and for
\* l || r with l truthy the right operand r is never evaluated, so neither an
\* effect nor an error of r occurs.
C2_LogicalShortCircuit ==
  (/\ Invoked("LogicalExpression")
   /\ \/ input.operator = "&&" /\ input.left \in FalsyLefts
      \/ input.operator = "||" /\ input.left \in TruthyLefts)
  => ~Visited(input.right) /\ result.kind = "normal"

\* operands whose value does not depend on the state, and that value
KnownOperands ==
  {NumericLiteral(i) : i \in 0..MaxNum}
    \cup {StringLiteral(<<>>), StringLiteral(<<"a">>), StringLiteral(<<"1">>),
          NullLiteral, Less(0, 1), Less(1, 0), ZeroByZero}

ValueOf(e) ==
  IF e.type \in {"NumericLiteral", "StringLiteral"} THEN e.value
  ELSE IF e = NullLiteral THEN Null
  ELSE IF e = ZeroByZero THEN NaN
  ELSE Bool(e = Less(0, 1))

\* only false and null are falsy
ClaimedTruthy(v) == ~(v = Bool(FALSE) \/ v = Null)

\* false, null, the numbers 0 and NaN and the empty string are falsy
HostTruthy(v) ==
  ~(v = Bool(FALSE) \/ v = Null \/ v = Str(<<>>)
      \/ (v.t = "number" /\ v.n = 0))

\* every condition context treats the value of its operand as Truthy says
ConditionsFollow(Truthy(_)) ==
  /\ (Invoked("IfStatement") /\ input.test \in KnownOperands)
       => (Visited(input.consequent) <=> Truthy(ValueOf(input.test)))
  /\ (Invoked("WhileStatement") /\ input.test \in KnownOperands)
       => (Visited(input.body) <=> Truthy(ValueOf(input.test)))
  /\ (Invoked("ForStatement") /\ input.test \in KnownOperands)
       => (Visited(input.body) <=> Truthy(ValueOf(input.test)))
  /\ (Invoked("UnaryExpression") /\ input.operator = "!"
        /\ input.argument \in KnownOperands)
       => /\ result.kind = "normal"
          /\ result.val = Bool(~Truthy(ValueOf(input.argument)))
  /\ (Invoked("LogicalExpression") /\ input.left \in KnownOperands
        /\ input.right = StringLiteral(<<"r">>))
       => /\ result.kind = "normal"
          /\ result.val =
               IF Truthy(ValueOf(input.left)) <=> (input.operator = "&&")
               THEN Str(<<"r">>) ELSE ValueOf(input.left)

\* C3 (as claimed): in every condition context exactly false and null are
\* falsy; every number including 0 and every string including the empty
\* string is truthy.
C3_OnlyFalseAndNullFalsy == ConditionsFollow(ClaimedTruthy)

\* C3 (amended): in every condition context false, null, the numbers 0 and
\* NaN and the empty string are falsy; every other number and every
\* non-empty string is truthy.
C3_HostTruthiness == ConditionsFollow(HostTruthy)

\* an if statement on the number 0 took its else branch
C3_ZeroTakesElse ==
  /\ Invoked("IfStatement")
  /\ input.test = NumericLiteral(0)
  /\ ~IsAbsent(input.alternate)
  /\ Visited(input.alternate)
  /\ ~Visited(input.consequent)

\* the value of an operand that is a literal, a comparison of literals or a
\* global name
Defined(name) == name \in DOMAIN envs[globals].values

HasValue(e) ==
  \/ e \in KnownOperands
  \/ e.type = "Identifier" /\ Defined(e.name)

OperandValue(e) ==
  IF e.type = "Identifier" THEN envs[globals].values[e.name] ELSE ValueOf(e)

\* the RuntimeErrors of the interpreter, by the name the design gives them
IsTypeMismatch(e) ==
  /\ e.class = "RuntimeError"
  /\ Len(e.message) = 4
  /\ e.message[1] = "Runtime: Mismatched type, cannot "

IsOperandMustBeNumber(e) ==
  e.class = "RuntimeError" /\ e.message = <<"Operands must be numbers.">>

IsArityMismatch(e) ==
  /\ e.class = "RuntimeError"
  /\ Len(e.message) = 5
  /\ e.message[1] = "Expected "

IsNotCallable(e) ==
  /\ e.class = "RuntimeError"
  /\ e.message = <<"Can only call functions and classes">>

\* C4: + yields the sum of two numbers and the concatenation of two strings
\* and fails with TypeMismatch on every other pair of operand values; each
\* of - * / > < >= <= fails with OperandMustBeNumber unless both operands
\* are numbers.
C4_BinaryOperandTypes ==
  (/\ Invoked("BinaryExpression")
   /\ HasValue(input.left)
   /\ HasValue(input.right))
  => LET l == OperandValue(input.left)
         r == OperandValue(input.right)
     IN /\ input.operator = "+" =>
             IF l.t = "number" /\ r.t = "number"
             THEN /\ result.kind = "normal"
                  /\ result.val.t = "number"
                  /\ (l.d = 1 /\ r.d = 1) => result.val = Num(l.n + r.n)
             ELSE IF l.t = "string" /\ r.t = "string"
             THEN /\ result.kind = "normal"
                  /\ result.val = Str(l.s \o r.s)
             ELSE /\ Failed
                  /\ IsTypeMismatch(result.val)
                  /\ result.val.node = input
        /\ input.operator \in {"-", "*", "/", ">", "<", ">=", "<="} =>
             IF l.t = "number" /\ r.t = "number"
             THEN result.kind = "normal"
             ELSE /\ Failed
                  /\ IsOperandMustBeNumber(result.val)
                  /\ result.val.node = input

\* 1 + "a" has failed with TypeMismatch
C4_NumberPlusStringFails ==
  /\ Invoked("BinaryExpression")
  /\ input = BinaryExpression("+", NumericLiteral(1), StringLiteral(<<"a">>))
  /\ Failed
  /\ IsTypeMismatch(result.val)

\* the call of the last handler ran the body of a user function
BodyInvoked == \E i \in 1..Len(log) : log[i].ev = "call"

\* C5: a call whose argument count differs from the declared arity of the
\* callee fails with ArityMismatch and the body of the callee is never
\* invoked; a callee of unbounded arity is invoked with any number of
\* arguments.
C5_ArityChecked ==
  (/\ Invoked("CallExpression")
   /\ HasValue(input.callee)
   /\ IsCallable(OperandValue(input.callee)))
  => LET callee == OperandValue(input.callee)
     IN IF callee.t = "native"
        THEN /\ result.kind = "normal"
             /\ \E i \in 1..Len(log) :
                  /\ log[i].ev = "print"
                  /\ Len(log[i].args) = Len(input.arguments)
        ELSE Len(input.arguments) # Len(callee.declaration.params)
               => /\ Failed
                  /\ IsArityMismatch(result.val)
                  /\ result.val.node = input
                  /\ ~BodyInvoked

\* a one-parameter function called with two arguments has failed
C5_TwoArgumentsRejected ==
  /\ Invoked("CallExpression")
  /\ input.callee = Identifier("f")
  /\ Defined("f")
  /\ Len(input.arguments) = 2
  /\ Failed
  /\ IsArityMismatch(result.val)

\* C6: a call whose callee evaluates to a number, a string, a boolean or
\* null fails with a NotCallable RuntimeError carrying the call node.
C6_NotCallable ==
  (/\ Invoked("CallExpression")
   /\ HasValue(input.callee)
   /\ OperandValue(input.callee).t \in {"number", "string", "boolean", "null"})
  => /\ Failed
     /\ IsNotCallable(result.val)
     /\ result.val.node = input

\* C7: == and != compare without conversion: on operands of different
\* runtime types == is false and != is true.
C7_EqualityWithoutCoercion ==
  (/\ Invoked("BinaryExpression")
   /\ input.operator \in {"==", "!="}
   /\ HasValue(input.left)
   /\ HasValue(input.right)
   /\ OperandValue(input.left).t \in {"number", "string", "boolean", "null"}
   /\ OperandValue(input.right).t \in {"number", "string", "boolean", "null"}
   /\ OperandValue(input.left).t # OperandValue(input.right).t)
  => /\ result.kind = "normal"
     /\ result.val = Bool(input.operator = "!=")

\* { Banao x = 1; } print(x);
ScopedProgram ==
  Program(<<BlockStatement(
              <<VariableStatement(
                  <<VariableDeclaration("x", NumericLiteral(1))>>)>>),
            ExpressionStatement(
              CallExpression(Identifier("print"), <<Identifier("x")>>))>>)

\* { { Banao y = 1; } y; }
ScopedBlock ==
  BlockStatement(
    <<BlockStatement(
        <<VariableStatement(
            <<VariableDeclaration("y", NumericLiteral(1))>>)>>),
      ExpressionStatement(Identifier("y"))>>)

\* the entry of the block that the exit at position j of the log ends
EntryOf(j) ==
  CHOOSE i \in 1..(j - 1) :
    /\ log[i].ev = "executeBlock"
    /\ log[i].level = log[j].level
    /\ \A k \in (i + 1)..(j - 1) :
         ~(log[k].ev = "executeBlock" /\ log[k].level = log[j].level)

\* C8: whenever the evaluation of a block ends, normally, by a return
\* signal or by a runtime error, the current environment is again the one
\* that was current when the block was entered, so that a name declared
\* inside the block is undefined afterwards.
C8_BlockRestoresEnvironment ==
  /\ \A j \in 1..Len(log) :
       log[j].ev = "finally" =>
         log[j].environment = log[EntryOf(j)].environment
  /\ Ended => environment = globals
  /\ (Ended /\ input = ScopedProgram /\ ~Defined("x"))
       => Failed /\ result.val = UndefinedVariable("x")
  /\ (Ended /\ input = ScopedBlock /\ ~Defined("y"))
       => Failed /\ result.val = UndefinedVariable("y")

\* a block nested in a block was left by a runtime error
C8_BlockLeftByError ==
  /\ Invoked("BlockStatement")
  /\ Failed
  /\ result.val.class = "RuntimeError"
  /\ \E j \in 1..Len(log) : log[j].ev = "finally" /\ log[j].level = 2
  /\ environment = globals

\* C9: a return statement executed inside a function invocation carries its
\* value through every enclosing block and loop of that invocation, none of
\* which executes a further statement or iteration, it is not reported as an
\* error, and the nearest enclosing call yields exactly that value.
C9_ReturnUnwindsToCall ==
  /\ \A i \in 1..Len(log) :
       (log[i].ev = "throw Return" /\ log[i].depth > 0) =>
         \E j \in (i + 1)..Len(log) :
           /\ log[j].ev = "caught Return"
           /\ log[j].depth = log[i].depth
           /\ log[j].value = log[i].value
           /\ \A k \in (i + 1)..(j - 1) : log[k].ev = "finally"
  /\ Invoked("CallExpression") =>
       \A i \in 1..Len(log) :
         (log[i].ev = "throw Return" /\ log[i].depth = 1) =>
           result.kind = "normal" /\ result.val = log[i].value

\* a return has left three nested blocks and a loop of its invocation
C9_ReturnLeftNestedBlocks ==
  /\ Invoked("CallExpression")
  /\ result.kind = "normal"
  /\ \E i \in 1..(Len(log) - 4) :
       /\ log[i].ev = "throw Return"
       /\ \A k \in (i + 1)..(i + 3) : log[k].ev = "finally"
       /\ \E w \in 1..i : /\ log[w].ev = "visit"
                          /\ log[w].node.type = "WhileStatement"
                          /\ log[w].depth = log[i].depth

\* C10: a for statement whose test clause is absent never stops because of
\* the missing test: it ends only by a return signal or a runtime error.
C10_AbsentTestNeverStops ==
  (Invoked("ForStatement") /\ IsAbsent(input.test))
  => result.kind # "normal"

\* C11: a variable statement that ends normally has defined the name of
\* every one of its declarators in the current environment, so that after
\* `Banao x = 1, y = 2;` both x and y are defined.
C11_EveryDeclaratorDefined ==
  (Invoked("VariableStatement") /\ result.kind = "normal")
  => \A i \in 1..Len(input.declarations) :
       input.declarations[i].id.name \in DOMAIN envs[environment].values

\* a compound assignment to a defined global name is invoked in this step
CompoundAssignmentStep ==
  /\ result = Idle
  /\ result' # Idle
  /\ input'.type = "AssignmentExpression"
  /\ input'.operator # "="
  /\ input'.right \in KnownOperands
  /\ environment = globals
  /\ Defined(input'.left.name)

\* C12: a compound assignment `x op= e` writes the result of the operator
\* back to x when the operand types fit, number and number or, for += only,
\* string and string; on every other pair of types it fails, += with
\* TypeMismatch and -= *= /= with a RuntimeError, and x keeps its value.
C12_CompoundAssignmentTyping ==
  [][CompoundAssignmentStep =>
       LET name == input'.left.name
           old == envs[globals].values[name]
           e == ValueOf(input'.right)
           new == envs'[globals].values[name]
           fits == \/ TypeOf(old) = "number" /\ TypeOf(e) = "number"
                   \/ /\ input'.operator = "+="
                      /\ TypeOf(old) = "string" /\ TypeOf(e) = "string"
       IN IF fits
          THEN /\ result'.kind = "normal"
               /\ new = CASE input'.operator = "+=" -> HostAdd(old, e)
                          [] input'.operator = "-=" -> HostSub(old, e)
                          [] input'.operator = "*=" -> HostMul(old, e)
                          [] input'.operator = "/=" -> HostDiv(old, e)
          ELSE /\ result'.kind = "throw"
               /\ result'.val.class = "RuntimeError"
               /\ input'.operator = "+=" => IsTypeMismatch(result'.val)
               /\ new = old]_vars

\* C14: a simple assignment `x = e` on an existing binding evaluates to the
\* value just written to x, so that the chained assignment `x = y = 2`
\* leaves both x and y equal to 2.
C14_AssignmentYieldsWrittenValue ==
  /\ (Invoked("AssignmentExpression") /\ input.operator = "="
        /\ result.kind = "normal" /\ environment = globals)
       => result.val = envs[globals].values[input.left.name]
  /\ (Ended /\ input = ChainedAssignment)
       => /\ result.kind = "normal"
          /\ envs[globals].values["x"] = Num(2)
          /\ envs[globals].values["y"] = Num(2)

\* a token was returned by the last call of getNextToken
Returned == token # Idle /\ token.kind = "normal" /\ token.val # Null

\* C13: every token returned by getNextToken carries the offsets of its own
\* text: start is the offset of its first character and never negative, end
\* is the offset just past its last character, end - start is the length of
\* its text, and the source from start to end is that text.
C13_TokenOffsets ==
  Returned =>
    /\ token.val.start >= 0
    /\ token.val.end = cursor.n
    /\ token.val.end - token.val.start = Len(token.val.value.s)
    /\ SubSeq(string.s, token.val.start + 1, token.val.end)
         = token.val.value.s

====
